---- MODULE Spec2Model ----
(***************************************************************************)
(* The order-fulfilment pipeline of order-processor/function_app.py:       *)
(* process_order (orders-queue) and confirm_order (order-confirmation-     *)
(* queue), the four tables they write inside engine.begin() transactions,  *)
(* the blob container "invoices" and the two Service Bus queues.           *)
(*                                                                         *)
(* The relational store is modelled as the code uses it: every statement   *)
(* of a transaction is one step; SELECT reads committed rows; UPDATE and   *)
(* INSERT take the row's lock (held until commit or rollback) and write    *)
(* into the transaction's pending rows; commit installs the pending rows;  *)
(* rollback drops them.  A transaction reads as of its first SELECT.        *)
(* Money is counted in integer cents.                                      *)
(*                                                                         *)
(* The queue runtime delivers a message, completes it when the handler     *)
(* returns and delivers it again when the handler raises or the message    *)
(* lock is lost.  Three fields of a message only record history for the    *)
(* properties below: outcome (how its last invocation ended), failed_at    *)
(* (where its last failing invocation stood) and commits (how many         *)
(* reservation transactions of this message have committed; for a message  *)
(* of the confirmation queue, how many first transactions of confirm_order *)
(* have); po[m].overlap records that the invocation began while another    *)
(* one was in its transaction.                                             *)
(***************************************************************************)
EXTENDS Integers, Sequences, FiniteSets, TLC

(* ---------------- bounds of the model ---------------- *)
\* failures the environment injects in one run (a store, queue or upload error,
\* a lost message lock); every one of them makes the runtime redeliver a message
MaxFaults == 1
\* items in the event of the single-message scenario
MaxItems == 2
\* messages the producer puts on orders-queue
MaxEvents == 2
\* invocations the function host runs at the same time
MaxConcurrentCalls == 2
\* deliveries of one message the run follows (a handler that raises every time
\* is handed its message again and again)
MaxDeliveryCount == 3

OrderIds == {1, 2}
Warehouses == {1, 2}
Products == {1, 2}
Quantities == {3, 4}
Prices == {5, 7}

(* ---------------- wire entities ---------------- *)
Items == [product_id : Products, quantity : Quantities, price : Prices]

RECURSIVE SeqsUpTo(_, _)
SeqsUpTo(S, n) ==
  IF n = 0 THEN {<< >>}
  ELSE LET shorter == SeqsUpTo(S, n - 1)
       IN shorter \cup {Append(s, x) : s \in {t \in shorter : Len(t) = n - 1}, x \in S}

\* every OrderEvent with 1..MaxItems items
OrderEvents ==
  [order_id : OrderIds, warehouse_id : Warehouses,
   items : SeqsUpTo(Items, MaxItems) \ {<< >>}]

\* the events used when several messages are in flight: one item,
\* either 3 units at 5 or 4 units at 7
PairedItems == {it \in Items : (it.quantity = 3) <=> (it.price = 5)}
SingleItemEvents ==
  [order_id : OrderIds, warehouse_id : Warehouses,
   items : {<<it>> : it \in PairedItems}]
\* ... the first of them: order 1, warehouse 1, 3 units of product 1
FirstEvents ==
  {e \in SingleItemEvents : e.order_id = 1 /\ e.warehouse_id = 1
                             /\ e.items[1].product_id = 1 /\ e.items[1].quantity = 3}

\* the keys the handlers read: order_event["order_id"], ["warehouse_id"], ["items"],
\* item["product_id"], item["quantity"], item["price"]
EventFields == {"order_id", "warehouse_id", "items"}
ItemFields == {"product_id", "quantity", "price"}

\* a JSON object without key k
Without(obj, k) == [f \in (DOMAIN obj) \ {k} |-> obj[f]]

\* events with a required key missing: in the event itself, or in its second item
MalformedEvents ==
  LET item == [product_id |-> 1, quantity |-> 3, price |-> 5]
      e == [order_id |-> 2, warehouse_id |-> 1, items |-> <<item>>]
  IN {Without(e, k) : k \in EventFields}
     \cup {[e EXCEPT !.items = <<item, Without(item, k)>>] : k \in ItemFields}

(* ---------------- the store ---------------- *)
\* inventory before any event: (1,1) and (2,1) stocked, (1,2) short, (2,2) has no row
InitialInventory ==
  { [product_id |-> 1, warehouse_id |-> 1, quantity |-> 10],
    [product_id |-> 2, warehouse_id |-> 1, quantity |-> 10],
    [product_id |-> 1, warehouse_id |-> 2, quantity |-> 2] }

NoUrl == << >>

VARIABLES
  orders,        \* rows [order_id, warehouse_id, status, invoice_blob]
  inventory,     \* rows [product_id, warehouse_id, quantity]
  order_items,   \* rows [order_id, product_id, quantity, price]
  invoice,       \* number of invoice rows per order_id
  blobs,         \* container "invoices": blob name -> set holding its content
  ordersQ,       \* orders-queue: sequence of messages
  po,            \* process_order invocation of each orders-queue message
  confQ,         \* order-confirmation-queue: messages with their confirm_order invocation
  faults         \* failures injected so far

vars == <<orders, inventory, order_items, invoice, blobs, ordersQ, po, confQ, faults>>
tables == <<orders, inventory, order_items, invoice>>

OrderKey(r) == r.order_id
InvKey(r) == <<r.product_id, r.warehouse_id>>
ItemKey(r) == <<r.order_id, r.product_id>>

OrderRows(oid) == {r \in orders : r.order_id = oid}
ItemRows(oid) == {r \in order_items : r.order_id = oid}

\* COMMIT: the pending rows replace the committed rows that have their keys
InstallOrders(table, pending) ==
  {r \in table : \A w \in pending : OrderKey(w) # OrderKey(r)} \cup pending
InstallInventory(table, pending) ==
  {r \in table : \A w \in pending : InvKey(w) # InvKey(r)} \cup pending
InstallItems(table, pending) ==
  {r \in table : \A w \in pending : ItemKey(w) # ItemKey(r)} \cup pending

(* ---------------- queue runtime ---------------- *)
NewMessage(e) ==
  [body |-> e, deliveries |-> 0, state |-> "queued", outcome |-> "none",
   failed_at |-> "none", commits |-> 0]

\* the handler raised (or the message lock was lost): the message is back on the
\* queue and will be delivered again
Abandon(msg, why) == [msg EXCEPT !.state = "queued", !.outcome = why]

Complete(msg) == [msg EXCEPT !.state = "completed", !.outcome = "completed"]

IdlePO ==
  [pc |-> "idle", existing |-> FALSE, i |-> 1, overlap |-> FALSE,
   tx_orders |-> {}, tx_inventory |-> {}, tx_items |-> {}]

IdleCO ==
  [pc |-> "idle", order |-> {}, items |-> {}, total_amount |-> 0,
   tx_orders |-> {}, tx_invoice |-> 0]

NoConfirmation ==
  [order_id |-> 0, deliveries |-> 0, state |-> "absent", outcome |-> "none",
   commits |-> 0, co |-> IdleCO]

NewConfirmation(oid) == [NoConfirmation EXCEPT !.order_id = oid, !.state = "queued"]

\* a message on the confirmation queue whose body has no "order_id"
MalformedConfirmation == Without(NewConfirmation(0), "order_id")

\* a ConfirmationEvent is identified by the orders-queue delivery that sent it;
\* <<0, 1>> is a ConfirmationEvent that some other producer put on the queue
ConfIds(q) == ((DOMAIN q) \X (1..(MaxFaults + 2))) \cup {<<0, 1>>}

Running ==
  Cardinality({m \in DOMAIN po : po[m].pc # "idle"})
  + Cardinality({c \in DOMAIN confQ : confQ[c].co.pc # "idle"})

TxPcs == {"upsert_order", "inventory", "order_items", "commit"}

(* ---------------- row locks ---------------- *)
OrderLockedByOther(me, oid) ==
  \/ \E m \in DOMAIN po :
       <<"po", m>> # me /\ \E r \in po[m].tx_orders : r.order_id = oid
  \/ \E c \in DOMAIN confQ :
       <<"co", c>> # me /\ \E r \in confQ[c].co.tx_orders : r.order_id = oid

\* (mutant) UPDATE inventory takes no row lock: a read-modify-write that races
InventoryNeverLocked(m, key) == FALSE

InventoryLockedByOther(m, key) ==
  \E n \in DOMAIN po : n # m /\ \E r \in po[n].tx_inventory : InvKey(r) = key

ItemLockedByOther(m, key) ==
  \E n \in DOMAIN po : n # m /\ \E r \in po[n].tx_items : ItemKey(r) = key

(* ---------------- Init ---------------- *)
\* Empty orders and order_items, the initial stock, and on the queues one of:
\* one OrderEvent of 1..MaxItems items; the first event and a ConfirmationEvent
\* from elsewhere, for order 1 or for order 2 (never reserved); MaxEvents
\* one-item events, the first of them the first event.
Init ==
  /\ orders = {}
  /\ inventory = InitialInventory
  /\ order_items = {}
  /\ invoice = [o \in OrderIds |-> 0]
  /\ blobs = {}
  /\ \/ /\ \E e \in OrderEvents : ordersQ = <<NewMessage(e)>>
        /\ confQ = [c \in ConfIds(ordersQ) |-> NoConfirmation]
     \/ /\ \E e \in FirstEvents : ordersQ = <<NewMessage(e)>>
        /\ \E o \in OrderIds :
             confQ = [c \in ConfIds(ordersQ) |->
                        IF c = <<0, 1>> THEN NewConfirmation(o) ELSE NoConfirmation]
     \/ /\ \E q \in [1..MaxEvents -> SingleItemEvents] :
             /\ q[1] \in FirstEvents
             /\ ordersQ = [m \in 1..MaxEvents |-> NewMessage(q[m])]
        /\ confQ = [c \in ConfIds(ordersQ) |-> NoConfirmation]
  /\ po = [m \in DOMAIN ordersQ |-> IdlePO]
  /\ faults = 0

(* ---------------- process_order ---------------- *)
\* (mutant) the ConfirmationEvent is sent first, before the transaction begins
process_order_begin_send_first(m) ==
  LET ev == ordersQ[m].body IN
  /\ ordersQ[m].state = "queued"
  /\ Running < MaxConcurrentCalls
  /\ ordersQ' = [ordersQ EXCEPT ![m].state = "locked", ![m].deliveries = @ + 1]
  /\ confQ' = [confQ EXCEPT ![<<m, ordersQ[m].deliveries + 1>>] =
                  NewConfirmation(ev.order_id)]
  /\ po' = [po EXCEPT ![m] =
              [IdlePO EXCEPT !.pc = "upsert_order",
                             !.existing = OrderRows(ev.order_id) # {},
                             !.overlap = \E n \in DOMAIN po : po[n].pc \in TxPcs]]
  /\ UNCHANGED <<orders, inventory, order_items, invoice, blobs, faults>>

\* the trigger delivers message m; json.loads; engine.begin(); SELECT order_id
process_order_begin(m) ==
  LET ev == ordersQ[m].body IN
  /\ ordersQ[m].state = "queued"
  /\ ordersQ[m].deliveries < MaxDeliveryCount
  /\ Running < MaxConcurrentCalls
  /\ IF ~(EventFields \subseteq DOMAIN ev)
       THEN \* KeyError at lines 59-61, before the transaction: log, raise
            /\ ordersQ' = [ordersQ EXCEPT ![m] =
                   [Abandon(@, "key_error") EXCEPT !.deliveries = @ + 1,
                                                   !.failed_at = "parse"]]
            /\ UNCHANGED po
       ELSE /\ ordersQ' = [ordersQ EXCEPT ![m].state = "locked", ![m].deliveries = @ + 1]
            /\ po' = [po EXCEPT ![m] =
                   [IdlePO EXCEPT !.pc = "upsert_order",
                                  !.existing = OrderRows(ev.order_id) # {},
                                  !.overlap = \E n \in DOMAIN po : po[n].pc \in TxPcs]]
  /\ UNCHANGED <<orders, inventory, order_items, invoice, blobs, confQ, faults>>

\* the exception path of process_order: rollback by engine.begin(), log, raise
process_order_raise(m, why) ==
  /\ po' = [po EXCEPT ![m] = IdlePO]
  /\ ordersQ' = [ordersQ EXCEPT ![m] = [Abandon(@, why) EXCEPT !.failed_at = po[m].pc]]

\* (mutant) the UPDATE of an existing order also moves it to the event's warehouse
process_order_upsert_order_moves_warehouse(m) ==
  LET ev == ordersQ[m].body
      oid == ev.order_id
  IN
  /\ po[m].pc = "upsert_order"
  /\ ~OrderLockedByOther(<<"po", m>>, oid)
  /\ IF ~po[m].existing /\ OrderRows(oid) # {}
       THEN process_order_raise(m, "tx_failed")
       ELSE /\ po' = [po EXCEPT
                 ![m].pc = "inventory",
                 ![m].tx_orders =
                     IF ~po[m].existing
                       THEN {[order_id |-> oid, warehouse_id |-> ev.warehouse_id,
                              status |-> "reserved", invoice_blob |-> NoUrl]}
                       ELSE {[r EXCEPT !.status = "reserved",
                                       !.warehouse_id = ev.warehouse_id] : r \in OrderRows(oid)}]
            /\ UNCHANGED ordersQ
  /\ UNCHANGED <<orders, inventory, order_items, invoice, blobs, confQ, faults>>

\* INSERT INTO orders ... 'reserved'  or  UPDATE orders SET status = 'reserved'
process_order_upsert_order(m) ==
  LET ev == ordersQ[m].body
      oid == ev.order_id
  IN
  /\ po[m].pc = "upsert_order"
  /\ ~OrderLockedByOther(<<"po", m>>, oid)
  /\ IF ~po[m].existing /\ OrderRows(oid) # {}
       THEN \* duplicate key: the row was committed after this transaction's SELECT
            process_order_raise(m, "tx_failed")
       ELSE /\ po' = [po EXCEPT
                 ![m].pc = "inventory",
                 ![m].tx_orders =
                     IF ~po[m].existing
                       THEN {[order_id |-> oid, warehouse_id |-> ev.warehouse_id,
                              status |-> "reserved", invoice_blob |-> NoUrl]}
                       ELSE {[r EXCEPT !.status = "reserved"] : r \in OrderRows(oid)}]
            /\ UNCHANGED ordersQ
  /\ UNCHANGED <<orders, inventory, order_items, invoice, blobs, confQ, faults>>

\* (mutant) the decrement stops at zero
DecrementInventoryFloored(rows, qty) ==
  {[r EXCEPT !.quantity = IF @ - qty < 0 THEN 0 ELSE @ - qty] : r \in rows}

\* SET quantity = quantity - :qty on the rows the WHERE clause matches
DecrementInventory(rows, qty) == {[r EXCEPT !.quantity = @ - qty] : r \in rows}

\* (mutant) a redelivery-safe handler: an order that already exists is not
\* decremented again
process_order_decrement_once(m) ==
  LET ev == ordersQ[m].body
      item == ev.items[po[m].i]
      key == <<item.product_id, ev.warehouse_id>>
      mine == {r \in po[m].tx_inventory : InvKey(r) = key}
      current == IF mine # {} THEN mine ELSE {r \in inventory : InvKey(r) = key}
  IN
  /\ po[m].pc = "inventory"
  /\ ~InventoryLockedByOther(m, key)
  /\ po' = [po EXCEPT
       ![m].tx_inventory =
           IF po[m].existing THEN @
           ELSE (@ \ mine) \cup DecrementInventory(current, item.quantity),
       ![m].i = IF po[m].i = Len(ev.items) THEN 1 ELSE @ + 1,
       ![m].pc = IF po[m].i = Len(ev.items) THEN "order_items" ELSE @]
  /\ UNCHANGED <<orders, inventory, order_items, invoice, blobs, ordersQ, confQ, faults>>

\* (mutant) a stock check: the handler raises when the row is missing or short
process_order_decrement_checked(m) ==
  LET ev == ordersQ[m].body
      item == ev.items[po[m].i]
      key == <<item.product_id, ev.warehouse_id>>
      mine == {r \in po[m].tx_inventory : InvKey(r) = key}
      current == IF mine # {} THEN mine ELSE {r \in inventory : InvKey(r) = key}
  IN
  /\ po[m].pc = "inventory"
  /\ ~InventoryLockedByOther(m, key)
  /\ IF current = {} \/ \E r \in current : r.quantity < item.quantity
       THEN process_order_raise(m, "out_of_stock")
       ELSE /\ po' = [po EXCEPT
                 ![m].tx_inventory = (@ \ mine) \cup DecrementInventory(current, item.quantity),
                 ![m].i = IF po[m].i = Len(ev.items) THEN 1 ELSE @ + 1,
                 ![m].pc = IF po[m].i = Len(ev.items) THEN "order_items" ELSE @]
            /\ UNCHANGED ordersQ
  /\ UNCHANGED <<orders, inventory, order_items, invoice, blobs, confQ, faults>>

\* UPDATE inventory SET quantity = quantity - :qty WHERE product_id AND warehouse_id
process_order_decrement(m) ==
  LET ev == ordersQ[m].body
      item == ev.items[po[m].i]
      key == <<item.product_id, ev.warehouse_id>>
      mine == {r \in po[m].tx_inventory : InvKey(r) = key}
      current == IF mine # {} THEN mine ELSE {r \in inventory : InvKey(r) = key}
  IN
  /\ po[m].pc = "inventory"
  /\ IF ~({"quantity", "product_id"} \subseteq DOMAIN item)
       THEN \* KeyError building the parameters (line 94): rollback, log, raise
            process_order_raise(m, "key_error")
       ELSE /\ ~InventoryLockedByOther(m, key)
            /\ po' = [po EXCEPT
                 ![m].tx_inventory = (@ \ mine) \cup DecrementInventory(current, item.quantity),
                 ![m].i = IF po[m].i = Len(ev.items) THEN 1 ELSE @ + 1,
                 ![m].pc = IF po[m].i = Len(ev.items) THEN "order_items" ELSE @]
            /\ UNCHANGED ordersQ
  /\ UNCHANGED <<orders, inventory, order_items, invoice, blobs, confQ, faults>>

\* (mutant) a plain INSERT into a table without the key: the row is added
InsertOrderItem(rows, row) == rows \cup {row}

\* (mutant) INSERT IGNORE: on a key conflict the row already there is kept
UpsertOrderItemKeepFirst(rows, row) ==
  IF \E r \in rows : ItemKey(r) = ItemKey(row) THEN rows ELSE rows \cup {row}

\* INSERT ... ON DUPLICATE KEY UPDATE quantity = :qty, price = :price
UpsertOrderItem(rows, row) ==
  {r \in rows : ItemKey(r) # ItemKey(row)} \cup {row}

\* (mutant) an item that lacks a key is skipped, not raised on
process_order_upsert_item_skip_bad(m) ==
  LET ev == ordersQ[m].body
      item == ev.items[po[m].i]
      row == [order_id |-> ev.order_id, product_id |-> item.product_id,
              quantity |-> item.quantity, price |-> item.price]
      key == ItemKey(row)
      mine == {r \in po[m].tx_items : ItemKey(r) = key}
      current == IF mine # {} THEN mine ELSE {r \in order_items : ItemKey(r) = key}
  IN
  /\ po[m].pc = "order_items"
  /\ (ItemFields \subseteq DOMAIN item) => ~ItemLockedByOther(m, key)
  /\ po' = [po EXCEPT
       ![m].tx_items = IF ItemFields \subseteq DOMAIN item
                         THEN (@ \ mine) \cup UpsertOrderItem(current, row) ELSE @,
       ![m].i = IF po[m].i = Len(ev.items) THEN 1 ELSE @ + 1,
       ![m].pc = IF po[m].i = Len(ev.items) THEN "commit" ELSE @]
  /\ UNCHANGED <<orders, inventory, order_items, invoice, blobs, ordersQ, confQ, faults>>

process_order_upsert_item(m) ==
  LET ev == ordersQ[m].body
      item == ev.items[po[m].i]
      row == [order_id |-> ev.order_id, product_id |-> item.product_id,
              quantity |-> item.quantity, price |-> item.price]
      key == ItemKey(row)
      mine == {r \in po[m].tx_items : ItemKey(r) = key}
      current == IF mine # {} THEN mine ELSE {r \in order_items : ItemKey(r) = key}
  IN
  /\ po[m].pc = "order_items"
  /\ IF ~(ItemFields \subseteq DOMAIN item)
       THEN \* KeyError building the parameters (lines 105-110): rollback, log, raise
            process_order_raise(m, "key_error")
       ELSE /\ ~ItemLockedByOther(m, key)
            /\ po' = [po EXCEPT
                 ![m].tx_items = (@ \ mine) \cup UpsertOrderItem(current, row),
                 ![m].i = IF po[m].i = Len(ev.items) THEN 1 ELSE @ + 1,
                 ![m].pc = IF po[m].i = Len(ev.items) THEN "commit" ELSE @]
            /\ UNCHANGED ordersQ
  /\ UNCHANGED <<orders, inventory, order_items, invoice, blobs, confQ, faults>>

\* leaving "with engine.begin()" normally: COMMIT
process_order_commit(m) ==
  /\ po[m].pc = "commit"
  /\ orders' = InstallOrders(orders, po[m].tx_orders)
  /\ inventory' = InstallInventory(inventory, po[m].tx_inventory)
  /\ order_items' = InstallItems(order_items, po[m].tx_items)
  /\ po' = [po EXCEPT ![m].pc = "publish", ![m].tx_orders = {},
                      ![m].tx_inventory = {}, ![m].tx_items = {}]
  /\ ordersQ' = [ordersQ EXCEPT ![m].commits = @ + 1]
  /\ UNCHANGED <<invoice, blobs, confQ, faults>>

\* (mutant) the failing transaction keeps what its statements wrote so far
process_order_tx_fail_no_rollback(m) ==
  /\ po[m].pc \in TxPcs
  /\ faults < MaxFaults
  /\ faults' = faults + 1
  /\ process_order_raise(m, "tx_failed")
  /\ orders' = InstallOrders(orders, po[m].tx_orders)
  /\ inventory' = InstallInventory(inventory, po[m].tx_inventory)
  /\ order_items' = InstallItems(order_items, po[m].tx_items)
  /\ UNCHANGED <<invoice, blobs, confQ>>

\* a statement of the transaction raises (store unreachable, lock wait timeout,
\* deadlock victim): engine.begin() rolls back, the handler logs and re-raises
process_order_tx_fail(m) ==
  /\ po[m].pc \in TxPcs
  /\ faults < MaxFaults
  /\ faults' = faults + 1
  /\ process_order_raise(m, "tx_failed")
  /\ UNCHANGED <<orders, inventory, order_items, invoice, blobs, confQ>>

\* (mutant) the message is completed but no ConfirmationEvent is sent
send_to_confirmation_queue_dropped(m) ==
  /\ po[m].pc = "publish"
  /\ po' = [po EXCEPT ![m] = IdlePO]
  /\ ordersQ' = [ordersQ EXCEPT ![m] = Complete(@)]
  /\ UNCHANGED <<orders, inventory, order_items, invoice, blobs, confQ, faults>>

\* send_to_confirmation_queue(order_id) succeeds; the runtime completes the message,
\* unless the message lock was lost meanwhile and the message is delivered again
send_to_confirmation_queue(m) ==
  /\ po[m].pc = "publish"
  /\ confQ' = [confQ EXCEPT ![<<m, ordersQ[m].deliveries>>] =
                  NewConfirmation(ordersQ[m].body.order_id)]
  /\ po' = [po EXCEPT ![m] = IdlePO]
  /\ \/ /\ ordersQ' = [ordersQ EXCEPT ![m] = Complete(@)]
        /\ UNCHANGED faults
     \/ /\ faults < MaxFaults
        /\ faults' = faults + 1
        /\ ordersQ' = [ordersQ EXCEPT ![m] = Abandon(@, "lock_lost")]
  /\ UNCHANGED <<orders, inventory, order_items, invoice, blobs>>

\* (mutant) the publish failure is logged and swallowed: the message is completed
send_to_confirmation_queue_fail_swallowed(m) ==
  /\ po[m].pc = "publish"
  /\ faults < MaxFaults
  /\ faults' = faults + 1
  /\ po' = [po EXCEPT ![m] = IdlePO]
  /\ ordersQ' = [ordersQ EXCEPT ![m] = Complete(@)]
  /\ UNCHANGED <<orders, inventory, order_items, invoice, blobs, confQ>>

\* send_to_confirmation_queue raises: nothing is sent, process_order re-raises
send_to_confirmation_queue_fail(m) ==
  /\ po[m].pc = "publish"
  /\ faults < MaxFaults
  /\ faults' = faults + 1
  /\ process_order_raise(m, "publish_failed")
  /\ UNCHANGED <<orders, inventory, order_items, invoice, blobs, confQ>>

(* ---------------- confirm_order ---------------- *)
\* (mutant) the total adds the unit prices and forgets the quantities
RECURSIVE total_of_prices(_)
total_of_prices(items) ==
  IF items = {} THEN 0
  ELSE LET i == CHOOSE r \in items : TRUE
       IN i.price + total_of_prices(items \ {i})

\* total_amount = sum(float(i["quantity"]) * float(i["price"]) for i in items)
RECURSIVE total_amount(_)
total_amount(items) ==
  IF items = {} THEN 0
  ELSE LET i == CHOOSE r \in items : TRUE
       IN i.quantity * i.price + total_amount(items \ {i})

blob_name(order_id) == <<"invoice_order_", order_id, ".pdf">>
blob_url(name) == <<"invoices", name>>

\* the exception path of confirm_order: rollback by engine.begin(), log, raise
confirm_order_raise(c, why) ==
  confQ' = [confQ EXCEPT ![c] = [Abandon(@, why) EXCEPT !.co = IdleCO]]

\* (mutant) confirm_order without its "if not order: return"
confirm_order_begin_unchecked(c) ==
  LET oid == confQ[c].order_id IN
  /\ confQ[c].state = "queued"
  /\ Running < MaxConcurrentCalls
  /\ confQ' = [confQ EXCEPT
         ![c].state = "locked", ![c].deliveries = @ + 1,
         ![c].co = [IdleCO EXCEPT !.pc = "update", !.order = OrderRows(oid),
                                  !.items = ItemRows(oid)]]
  /\ UNCHANGED <<orders, inventory, order_items, invoice, blobs, ordersQ, po, faults>>

\* the trigger delivers message c; json.loads; engine.begin(); SELECT * FROM orders;
\* "if not order: return".  The transaction reads order_items as of this first read.
confirm_order_begin(c) ==
  LET oid == confQ[c].order_id IN
  /\ confQ[c].state = "queued"
  /\ confQ[c].deliveries < MaxDeliveryCount
  /\ Running < MaxConcurrentCalls
  /\ IF "order_id" \notin DOMAIN confQ[c]
       THEN \* KeyError at line 166, before the transaction: log, raise
            confQ' = [confQ EXCEPT ![c] =
                        [Abandon(@, "key_error") EXCEPT !.deliveries = @ + 1]]
       ELSE IF OrderRows(oid) = {}
       THEN confQ' = [confQ EXCEPT ![c] = [Complete(@) EXCEPT !.deliveries = @ + 1,
                                                            !.outcome = "skipped"]]
       ELSE confQ' = [confQ EXCEPT
              ![c].state = "locked", ![c].deliveries = @ + 1,
              ![c].co = [IdleCO EXCEPT !.pc = "update", !.order = OrderRows(oid),
                                       !.items = ItemRows(oid)]]
  /\ UNCHANGED <<orders, inventory, order_items, invoice, blobs, ordersQ, po, faults>>

\* (mutant) the invoice row is inserted only when the order has none yet
confirm_order_update_dedup(c) ==
  LET oid == confQ[c].order_id IN
  /\ confQ[c].co.pc = "update"
  /\ ~OrderLockedByOther(<<"co", c>>, oid)
  /\ confQ' = [confQ EXCEPT
       ![c].co.pc = "commit",
       ![c].co.tx_orders = {[r EXCEPT !.status = "confirmed"] : r \in OrderRows(oid)},
       ![c].co.total_amount = total_amount(confQ[c].co.items),
       ![c].co.tx_invoice = IF invoice[oid] = 0 THEN 1 ELSE 0]
  /\ UNCHANGED <<orders, inventory, order_items, invoice, blobs, ordersQ, po, faults>>

\* UPDATE orders SET status = 'confirmed'; SELECT ... FROM order_items; total_amount;
\* INSERT INTO invoice
confirm_order_update(c) ==
  LET oid == confQ[c].order_id IN
  /\ confQ[c].co.pc = "update"
  /\ ~OrderLockedByOther(<<"co", c>>, oid)
  /\ confQ' = [confQ EXCEPT
       ![c].co.pc = "commit",
       ![c].co.tx_orders = {[r EXCEPT !.status = "confirmed"] : r \in OrderRows(oid)},
       ![c].co.total_amount = total_amount(confQ[c].co.items),
       ![c].co.tx_invoice = 1]
  /\ UNCHANGED <<orders, inventory, order_items, invoice, blobs, ordersQ, po, faults>>

\* leaving the first "with engine.begin()" normally: COMMIT
confirm_order_commit(c) ==
  LET oid == confQ[c].order_id IN
  /\ confQ[c].co.pc = "commit"
  /\ orders' = InstallOrders(orders, confQ[c].co.tx_orders)
  /\ invoice' = [invoice EXCEPT ![oid] = @ + confQ[c].co.tx_invoice]
  /\ confQ' = [confQ EXCEPT ![c].co.pc = "upload", ![c].co.tx_orders = {},
                            ![c].co.tx_invoice = 0, ![c].commits = @ + 1]
  /\ UNCHANGED <<inventory, order_items, blobs, ordersQ, po, faults>>

\* a statement of the first transaction raises: rollback, log, raise
confirm_order_tx_fail(c) ==
  /\ confQ[c].co.pc \in {"update", "commit"}
  /\ faults < MaxFaults
  /\ faults' = faults + 1
  /\ confirm_order_raise(c, "tx_failed")
  /\ UNCHANGED <<orders, inventory, order_items, invoice, blobs, ordersQ, po>>

\* the invoice document: its lines and the Grand Total cell
InvoicePDF(order, items, total) ==
  [warehouse_id |-> {r.warehouse_id : r \in order},
   lines |-> {[product_id |-> i.product_id, quantity |-> i.quantity, price |-> i.price,
               line_total |-> i.quantity * i.price] : i \in items},
   grand_total |-> total]

\* (mutant) every upload is kept: the container versions its blobs
upload_blob_keep_all(container, name, data) ==
  container \cup {[name |-> name, data |-> data]}

\* upload_blob(..., overwrite=True)
upload_blob(container, name, data) ==
  {b \in container : b.name # name} \cup {[name |-> name, data |-> data]}

\* (mutant) the URL is computed without the upload having been made
confirm_order_upload_skipped(c) ==
  /\ confQ[c].co.pc = "upload"
  /\ confQ' = [confQ EXCEPT ![c].co.pc = "set_url"]
  /\ UNCHANGED <<orders, inventory, order_items, invoice, blobs, ordersQ, po, faults>>

\* render the PDF and upload it under blob_name
confirm_order_upload(c) ==
  LET co == confQ[c].co IN
  /\ co.pc = "upload"
  /\ blobs' = upload_blob(blobs, blob_name(confQ[c].order_id),
                          InvoicePDF(co.order, co.items, co.total_amount))
  /\ confQ' = [confQ EXCEPT ![c].co.pc = "set_url"]
  /\ UNCHANGED <<orders, inventory, order_items, invoice, ordersQ, po, faults>>

\* rendering or upload_blob raises, after the first transaction has committed
confirm_order_upload_fail(c) ==
  /\ confQ[c].co.pc = "upload"
  /\ faults < MaxFaults
  /\ faults' = faults + 1
  /\ confirm_order_raise(c, "upload_failed")
  /\ UNCHANGED <<orders, inventory, order_items, invoice, blobs, ordersQ, po>>

\* second transaction: UPDATE orders SET invoice_blob = :url; COMMIT; return.
\* The runtime completes the message unless its lock was lost.
confirm_order_set_url(c) ==
  LET oid == confQ[c].order_id IN
  /\ confQ[c].co.pc = "set_url"
  /\ ~OrderLockedByOther(<<"co", c>>, oid)
  /\ orders' = InstallOrders(orders,
                 {[r EXCEPT !.invoice_blob = blob_url(blob_name(oid))] : r \in OrderRows(oid)})
  /\ \/ /\ confQ' = [confQ EXCEPT ![c] = [Complete(@) EXCEPT !.co = IdleCO]]
        /\ UNCHANGED faults
     \/ /\ faults < MaxFaults
        /\ faults' = faults + 1
        /\ confirm_order_raise(c, "lock_lost")
  /\ UNCHANGED <<inventory, order_items, invoice, blobs, ordersQ, po>>

\* the second transaction raises: rollback, log, raise
confirm_order_set_url_fail(c) ==
  /\ confQ[c].co.pc = "set_url"
  /\ faults < MaxFaults
  /\ faults' = faults + 1
  /\ confirm_order_raise(c, "set_url_failed")
  /\ UNCHANGED <<orders, inventory, order_items, invoice, blobs, ordersQ, po>>

Next ==
  \/ \E m \in DOMAIN ordersQ : process_order_begin(m)
  \/ \E m \in DOMAIN ordersQ : process_order_upsert_order(m)
  \/ \E m \in DOMAIN ordersQ : process_order_decrement(m)
  \/ \E m \in DOMAIN ordersQ : process_order_upsert_item(m)
  \/ \E m \in DOMAIN ordersQ : process_order_commit(m)
  \/ \E m \in DOMAIN ordersQ : process_order_tx_fail(m)
  \/ \E m \in DOMAIN ordersQ : send_to_confirmation_queue(m)
  \/ \E m \in DOMAIN ordersQ : send_to_confirmation_queue_fail(m)
  \/ \E c \in DOMAIN confQ : confirm_order_begin(c)
  \/ \E c \in DOMAIN confQ : confirm_order_update(c)
  \/ \E c \in DOMAIN confQ : confirm_order_commit(c)
  \/ \E c \in DOMAIN confQ : confirm_order_tx_fail(c)
  \/ \E c \in DOMAIN confQ : confirm_order_upload(c)
  \/ \E c \in DOMAIN confQ : confirm_order_upload_fail(c)
  \/ \E c \in DOMAIN confQ : confirm_order_set_url(c)
  \/ \E c \in DOMAIN confQ : confirm_order_set_url_fail(c)

Spec == Init /\ [][Next]_vars

\* The program when nothing fails: no statement, publish or upload raises for a
\* failure of the store, the queue or the container.  A message is still
\* delivered again when its lock is lost (at most MaxFaults times in all) or when
\* the handler raises on a duplicate key.
ProcessOrderStep(m) ==
  \/ process_order_begin(m)
  \/ process_order_upsert_order(m)
  \/ process_order_decrement(m)
  \/ process_order_upsert_item(m)
  \/ process_order_commit(m)
  \/ send_to_confirmation_queue(m)

ConfirmOrderStep(c) ==
  \/ confirm_order_begin(c)
  \/ confirm_order_update(c)
  \/ confirm_order_commit(c)
  \/ confirm_order_upload(c)
  \/ confirm_order_set_url(c)

NextLive ==
  \/ \E m \in DOMAIN ordersQ : process_order_begin(m)
  \/ \E m \in DOMAIN ordersQ : process_order_upsert_order(m)
  \/ \E m \in DOMAIN ordersQ : process_order_decrement(m)
  \/ \E m \in DOMAIN ordersQ : process_order_upsert_item(m)
  \/ \E m \in DOMAIN ordersQ : process_order_commit(m)
  \/ \E m \in DOMAIN ordersQ : send_to_confirmation_queue(m)
  \/ \E c \in DOMAIN confQ : confirm_order_begin(c)
  \/ \E c \in DOMAIN confQ : confirm_order_update(c)
  \/ \E c \in DOMAIN confQ : confirm_order_commit(c)
  \/ \E c \in DOMAIN confQ : confirm_order_upload(c)
  \/ \E c \in DOMAIN confQ : confirm_order_set_url(c)

\* the function host keeps running both handlers: a handler that has a step to
\* take (a message to receive, a statement to run) eventually takes one
SpecLive ==
  /\ Init
  /\ [][NextLive]_vars
  /\ WF_vars(\E m \in DOMAIN ordersQ : ProcessOrderStep(m))
  /\ WF_vars(\E c \in DOMAIN confQ : ConfirmOrderStep(c))

\* The same program fed malformed messages: the first event, then an event with
\* a required key missing, and on the confirmation queue a message without
\* "order_id".
InitMalformed ==
  /\ orders = {}
  /\ inventory = InitialInventory
  /\ order_items = {}
  /\ invoice = [o \in OrderIds |-> 0]
  /\ blobs = {}
  /\ \E e \in FirstEvents : \E bad \in MalformedEvents :
       ordersQ = <<NewMessage(e), NewMessage(bad)>>
  /\ confQ = [c \in ConfIds(ordersQ) |->
                IF c = <<0, 1>> THEN MalformedConfirmation ELSE NoConfirmation]
  /\ po = [m \in DOMAIN ordersQ |-> IdlePO]
  /\ faults = 0

SpecMalformed == InitMalformed /\ [][Next]_vars

(* ======================= the claims ======================= *)

\* the units of inventory row `key` that the items of event ev, from item i on, request
RECURSIVE RequestedFrom(_, _, _)
RequestedFrom(ev, key, i) ==
  IF i > Len(ev.items) THEN 0
  ELSE (IF <<ev.items[i].product_id, ev.warehouse_id>> = key
          THEN ev.items[i].quantity ELSE 0)
       + RequestedFrom(ev, key, i + 1)

Requested(ev, key) == RequestedFrom(ev, key, 1)

\* the units of row `key` requested by all committed transactions of messages 1..m
RECURSIVE CommittedRequests(_, _)
CommittedRequests(key, m) ==
  IF m = 0 THEN 0
  ELSE ordersQ[m].commits * Requested(ordersQ[m].body, key) + CommittedRequests(key, m - 1)

\* the step is one of process_order's invocation for message m
StepOf(m) == po'[m] # po[m]
CommitOf(m) == po[m].pc = "commit" /\ po'[m].pc = "publish"

\* C1: no lost update on inventory.  In every state, whatever the interleaving of
\* the invocations, each inventory row holds its starting quantity minus the sum
\* of the quantities requested by all the reservation transactions committed so
\* far (start 10, requests 3 and 4: 3, never 6 or 7), and no row appears or vanishes.
C1_NoLostUpdate ==
  /\ {InvKey(r) : r \in inventory} = {InvKey(r) : r \in InitialInventory}
  /\ \A r0 \in InitialInventory :
       \A r \in inventory :
         InvKey(r) = InvKey(r0) =>
           r.quantity = r0.quantity - CommittedRequests(InvKey(r0), Len(ordersQ))

\* two reservations of 3 and 4 units on row (1,1), the second begun while the first
\* was inside its transaction, have both committed: 10 - 3 - 4 = 3 is left
C1_Witness ==
  /\ Len(ordersQ) = 2
  /\ ordersQ[1].commits = 1 /\ ordersQ[2].commits = 1
  /\ ordersQ[2].body.warehouse_id = 1
  /\ ordersQ[2].body.items[1].product_id = 1
  /\ ordersQ[2].body.items[1].quantity = 4
  /\ po[2].pc = "publish" /\ po[2].overlap
  /\ [product_id |-> 1, warehouse_id |-> 1, quantity |-> 3] \in inventory

\* C2: order status is monotonic: once an order's row has status 'confirmed', no
\* later state has that order with status 'reserved'.
C2_StatusNeverRegresses ==
  [][\A r \in orders :
       r.status = "confirmed" =>
         \A r2 \in orders' : r2.order_id = r.order_id => r2.status # "reserved"]_vars

\* C3: reservation is all-or-nothing.  No step of a process_order invocation other
\* than its COMMIT changes orders, inventory, order_items or invoice, nor the
\* confirmation queue; and when a statement of the transaction fails the invocation
\* ends there (no second attempt), the message goes back to the runtime as failed,
\* and nothing was sent to the confirmation queue.
C3_ReservationAllOrNothing ==
  [][\A m \in DOMAIN po :
       /\ (StepOf(m) /\ po[m].pc \in TxPcs \cup {"idle"} /\ ~CommitOf(m)) =>
            /\ tables' = tables
            /\ confQ' = confQ
       /\ (po[m].pc \in TxPcs /\ po'[m].pc = "idle") =>
            /\ po'[m] = IdlePO
            /\ ordersQ'[m].state = "queued"
            /\ ordersQ'[m].outcome = "tx_failed"
            /\ ordersQ'[m].deliveries = ordersQ[m].deliveries
            /\ ordersQ'[m].commits = ordersQ[m].commits]_vars

\* a two-item reservation failed inside its transaction, after its statements ran,
\* and the tables are as they were before the invocation
C3_Witness ==
  /\ Len(ordersQ) = 1
  /\ Len(ordersQ[1].body.items) = 2
  /\ ordersQ[1].outcome = "tx_failed" /\ ordersQ[1].commits = 0
  /\ ordersQ[1].failed_at = "commit"
  /\ ordersQ[1].state = "queued" /\ ordersQ[1].deliveries = 1
  /\ orders = {} /\ inventory = InitialInventory /\ order_items = {}
  /\ \A c \in DOMAIN confQ : confQ[c].state = "absent"

\* C4: when a process_order transaction commits, the order row of the event's
\* order_id exists with status 'reserved', and every inventory row holds its
\* quantity from before the commit minus the quantity the event requests of it
\* (nothing for a row the event does not reference), also when that is negative.
C4_ReservedAndDecremented ==
  [][\A m \in DOMAIN po :
       CommitOf(m) =>
         LET ev == ordersQ[m].body IN
         /\ \E r \in orders' : r.order_id = ev.order_id /\ r.status = "reserved"
         /\ \A r \in orders' : r.order_id = ev.order_id => r.status = "reserved"
         /\ {InvKey(r) : r \in inventory'} = {InvKey(r) : r \in inventory}
         /\ \A r \in inventory : \A r2 \in inventory' :
              InvKey(r2) = InvKey(r) =>
                r2.quantity = r.quantity - Requested(ev, InvKey(r))]_vars

\* a reservation of more than the 2 units in stock of row (1,2) has completed:
\* the order is 'reserved' and the row is negative
C4_Witness ==
  \E m \in DOMAIN ordersQ :
    /\ ordersQ[m].outcome = "completed" /\ ordersQ[m].commits = 1
    /\ ordersQ[m].body.warehouse_id = 2
    /\ \E r \in orders : r.order_id = ordersQ[m].body.order_id /\ r.status = "reserved"
    /\ \E r \in inventory :
         /\ InvKey(r) = <<1, 2>>
         /\ r.quantity < 0
         /\ r.quantity = 2 - Requested(ordersQ[m].body, <<1, 2>>)

\* the last item of event ev that names product p
LastItem(ev, p) ==
  LET i == CHOOSE j \in 1..Len(ev.items) :
             /\ ev.items[j].product_id = p
             /\ \A k \in (j + 1)..Len(ev.items) : ev.items[k].product_id # p
  IN ev.items[i]

ProductsOf(ev) == {ev.items[i].product_id : i \in 1..Len(ev.items)}

\* C5 as stated: when a process_order transaction commits an event of N items,
\* exactly N order_items rows exist for its order_id, one matching each item.
C5_ExactlyNRows ==
  [][\A m \in DOMAIN po :
       CommitOf(m) =>
         LET ev == ordersQ[m].body
             rows == {r \in order_items' : r.order_id = ev.order_id}
         IN /\ Cardinality(rows) = Len(ev.items)
            /\ \A i \in 1..Len(ev.items) :
                 [order_id |-> ev.order_id, product_id |-> ev.items[i].product_id,
                  quantity |-> ev.items[i].quantity, price |-> ev.items[i].price] \in rows]_vars

\* C5 as amended: when a process_order transaction commits, order_items holds for
\* every product the event names exactly one row of that order, carrying the
\* quantity and price of the last item naming the product, and every other row
\* of order_items is as before the commit.
C5_OneRowPerNamedProduct ==
  [][\A m \in DOMAIN po :
       CommitOf(m) =>
         LET ev == ordersQ[m].body IN
         /\ \A p \in ProductsOf(ev) :
              {r \in order_items' : ItemKey(r) = <<ev.order_id, p>>}
                = {[order_id |-> ev.order_id, product_id |-> p,
                    quantity |-> LastItem(ev, p).quantity,
                    price |-> LastItem(ev, p).price]}
         /\ {r \in order_items' : r.order_id # ev.order_id \/ r.product_id \notin ProductsOf(ev)}
              = {r \in order_items : r.order_id # ev.order_id \/ r.product_id \notin ProductsOf(ev)}]_vars

\* an event whose two items name the same product with different quantities has
\* committed: one row, with the second item's values
C5_Witness ==
  /\ Len(ordersQ) = 1
  /\ po[1].pc = "publish"
  /\ LET ev == ordersQ[1].body IN
       /\ Len(ev.items) = 2
       /\ ev.items[1].product_id = ev.items[2].product_id
       /\ ev.items[1].quantity # ev.items[2].quantity
       /\ ev.items[1].price # ev.items[2].price
       /\ order_items = {[order_id |-> ev.order_id, product_id |-> ev.items[2].product_id,
                          quantity |-> ev.items[2].quantity, price |-> ev.items[2].price]}

\* C6: a confirmation for an order_id with no row in orders is a benign skip: the
\* delivery step itself ends the invocation, the message is completed (nothing is
\* raised), no table and no blob changes.
C6_ConfirmUnknownOrderSkips ==
  [][\A c \in DOMAIN confQ :
       (/\ confQ[c].state = "queued"
        /\ confQ'[c].deliveries = confQ[c].deliveries + 1
        /\ OrderRows(confQ[c].order_id) = {}) =>
         /\ tables' = tables
         /\ blobs' = blobs
         /\ confQ'[c].state = "completed"
         /\ confQ'[c].outcome = "skipped"
         /\ confQ'[c].co = IdleCO]_vars

\* the confirmation for order 2, which was never reserved, has been skipped, while
\* order 1 was reserved: no row for order 2, no invoice row, no blob
C6_Witness ==
  /\ confQ[<<0, 1>>].order_id = 2
  /\ confQ[<<0, 1>>].state = "completed" /\ confQ[<<0, 1>>].outcome = "skipped"
  /\ ordersQ[1].commits = 1
  /\ OrderRows(2) = {}
  /\ invoice[2] = 0
  /\ \A b \in blobs : b.name # blob_name(2)

\* the committed reservation transactions for order oid, over messages 1..m
RECURSIVE Reservations(_, _)
Reservations(oid, m) ==
  IF m = 0 THEN 0
  ELSE (IF ordersQ[m].body.order_id = oid THEN ordersQ[m].commits ELSE 0)
       + Reservations(oid, m - 1)

\* quantity * price summed over a set of order_items rows, one row at a time
LineTotals(rows) == {<<ItemKey(r), r.quantity * r.price>> : r \in rows}
RECURSIVE SumOfLines(_)
SumOfLines(lines) ==
  IF lines = {} THEN 0
  ELSE LET l == CHOOSE x \in lines : TRUE IN l[2] + SumOfLines(lines \ {l})

\* C7: an order reserved (once) by process_order and then confirmed by
\* confirm_order: when a confirmation that found the order has completed, the
\* order's status is 'confirmed', the order has an invoice row, its invoice_blob
\* is the non-empty URL of its blob, and the Grand Total of the uploaded invoice
\* is the sum of quantity * price over the order's order_items rows.
C7_ReservedThenConfirmed ==
  \A c \in DOMAIN confQ :
    (/\ confQ[c].outcome = "completed"
     /\ Reservations(confQ[c].order_id, Len(ordersQ)) = 1) =>
      LET oid == confQ[c].order_id IN
      /\ OrderRows(oid) # {}
      /\ \A r \in OrderRows(oid) :
           /\ r.status = "confirmed"
           /\ r.invoice_blob # NoUrl
           /\ r.invoice_blob = blob_url(blob_name(oid))
      /\ invoice[oid] >= 1
      /\ \E b \in blobs : b.name = blob_name(oid)
      /\ \A b \in blobs :
           b.name = blob_name(oid) =>
             b.data.grand_total = SumOfLines(LineTotals(ItemRows(oid)))

\* a two-product order was reserved once and its confirmation has completed: the
\* uploaded Grand Total is q1*p1 + q2*p2
C7_Witness ==
  /\ Len(ordersQ) = 1
  /\ ordersQ[1].commits = 1
  /\ LET ev == ordersQ[1].body IN
       /\ Len(ev.items) = 2
       /\ ev.items[1].product_id # ev.items[2].product_id
       /\ ev.items[1].quantity # ev.items[2].quantity
       /\ confQ[<<1, 1>>].outcome = "completed"
       /\ \E r \in orders : r.order_id = ev.order_id /\ r.status = "confirmed"
                              /\ r.invoice_blob # NoUrl
       /\ \E b \in blobs :
            /\ b.name = blob_name(ev.order_id)
            /\ b.data.grand_total = ev.items[1].quantity * ev.items[1].price
                                     + ev.items[2].quantity * ev.items[2].price

\* the committed transactions of the messages 1..m whose event is ev / is not ev
RECURSIVE Applied(_, _)
Applied(ev, m) ==
  IF m = 0 THEN 0
  ELSE (IF ordersQ[m].body = ev THEN ordersQ[m].commits ELSE 0) + Applied(ev, m - 1)

RECURSIVE AppliedOthers(_, _)
AppliedOthers(ev, m) ==
  IF m = 0 THEN 0
  ELSE (IF ordersQ[m].body # ev THEN ordersQ[m].commits ELSE 0) + AppliedOthers(ev, m - 1)

\* C8: the same reservation event processed twice, the second invocation starting
\* after the first has committed.  The second invocation's order statement does
\* not raise; when it commits there is exactly one order row, 'reserved', and the
\* order_items rows are those the first processing left; but every inventory row
\* the event references has been decremented twice (initial - 2 * requested).
C8_TwiceSameEvent ==
  [][\A m \in DOMAIN po :
       LET ev == ordersQ[m].body IN
       /\ (po[m].pc = "upsert_order" /\ po[m].existing /\ po'[m].pc = "idle") =>
            faults' = faults + 1
       /\ (/\ CommitOf(m)
           /\ po[m].existing
           /\ Applied(ev, Len(ordersQ)) = 1
           /\ AppliedOthers(ev, Len(ordersQ)) = 0) =>
            /\ Cardinality({r \in orders' : r.order_id = ev.order_id}) = 1
            /\ \A r \in orders' : r.order_id = ev.order_id => r.status = "reserved"
            /\ order_items' = order_items
            /\ \A r0 \in InitialInventory : \A r \in inventory' :
                 InvKey(r) = InvKey(r0) =>
                   r.quantity = r0.quantity - 2 * Requested(ev, InvKey(r0))]_vars

\* one message was processed, completed without raising but was delivered again
\* (lost lock), and the second processing has committed: row (1,1) went 10 -> 4 or 2
C8_Witness ==
  /\ Len(ordersQ) = 1
  /\ ordersQ[1].commits = 2 /\ ordersQ[1].outcome = "lock_lost"
  /\ po[1].pc = "publish"
  /\ ordersQ[1].body.warehouse_id = 1
  /\ Requested(ordersQ[1].body, <<1, 1>>) > 0
  /\ Cardinality(OrderRows(ordersQ[1].body.order_id)) = 1
  /\ \E r \in inventory :
       /\ InvKey(r) = <<1, 1>>
       /\ r.quantity = 10 - 2 * Requested(ordersQ[1].body, <<1, 1>>)

\* C9: in every state order_items holds at most one row per (order_id, product_id);
\* a reservation that commits for an order that already has a row for a product it
\* names leaves that one row with the quantity and price of the later event.
C9_OneRowPerOrderProduct ==
  [][/\ \A r1 \in order_items' : \A r2 \in order_items' :
          ItemKey(r1) = ItemKey(r2) => r1 = r2
     /\ \A m \in DOMAIN po :
          CommitOf(m) =>
            LET ev == ordersQ[m].body IN
            \A old \in order_items :
              (old.order_id = ev.order_id /\ old.product_id \in ProductsOf(ev)) =>
                \A r \in order_items' :
                  ItemKey(r) = ItemKey(old) =>
                    /\ r.quantity = LastItem(ev, old.product_id).quantity
                    /\ r.price = LastItem(ev, old.product_id).price]_vars

\* order 1 was reserved with 3 units of product 1 at 5, then a second event for
\* order 1 with 4 units of product 1 at 7 committed: one row, 4 at 7
C9_Witness ==
  /\ Len(ordersQ) = 2
  /\ ordersQ[1].commits = 1 /\ po[1].pc = "idle"
  /\ ordersQ[2].commits = 1 /\ po[2].pc = "publish" /\ po[2].existing
  /\ ordersQ[2].body.order_id = 1
  /\ ordersQ[2].body.items[1] = [product_id |-> 1, quantity |-> 4, price |-> 7]
  /\ order_items = {[order_id |-> 1, product_id |-> 1, quantity |-> 4, price |-> 7]}

\* the ConfirmationEvents that deliveries of message m have put on the queue
SentBy(m) == {c \in DOMAIN confQ : c[1] = m /\ confQ[c].state # "absent"}

\* C10 as stated: once the publish of a committed reservation has failed, no
\* ConfirmationEvent of that orders-queue message is ever enqueued afterwards.
C10_NeverEnqueuedAfterwards ==
  [][\A m \in DOMAIN ordersQ :
       ordersQ[m].outcome = "publish_failed" =>
         {c \in DOMAIN confQ : c[1] = m /\ confQ'[c].state # "absent"} = SentBy(m)]_vars

\* C10 as amended: when the publish after a committed reservation fails, that
\* invocation enqueues no ConfirmationEvent and leaves every table as committed
\* (the order stays as the commit left it), and it re-raises: the invocation is
\* over and the orders-queue message is back on the queue for redelivery, whose
\* processing can enqueue the ConfirmationEvent after all.
C10_PublishFailureRequeues ==
  [][\A m \in DOMAIN po :
       (/\ po[m].pc = "publish" /\ po'[m].pc = "idle"
        /\ {c \in DOMAIN confQ : c[1] = m /\ confQ'[c].state # "absent"} = SentBy(m)) =>
         /\ confQ' = confQ
         /\ tables' = tables
         /\ ordersQ'[m].state = "queued"
         /\ ordersQ'[m].outcome = "publish_failed"]_vars

\* the first delivery committed and failed to publish, the message was delivered
\* again, and the second delivery has enqueued the ConfirmationEvent
C10_Witness ==
  /\ Len(ordersQ) = 1
  /\ ordersQ[1].commits = 2
  /\ ordersQ[1].failed_at = "publish"
  /\ confQ[<<1, 1>>].state = "absent"
  /\ confQ[<<1, 2>>].state # "absent"
  /\ confQ[<<1, 2>>].order_id = ordersQ[1].body.order_id

\* a confirm_order invocation for order oid is between its delivery and its end
ConfirmRunning(oid) ==
  \E c \in DOMAIN confQ : confQ[c].order_id = oid /\ confQ[c].co.pc # "idle"

\* C11: the ledger statements of one confirm_order invocation commit together or
\* not at all: in no state, with no confirm_order invocation for the order under
\* way, is an order 'confirmed' with an invoice row while its invoice_blob was
\* never written (the invocation that inserted the row ended without its
\* invoice_blob update).
C11_ConfirmCommitsTogether ==
  \A r \in orders :
    (r.status = "confirmed" /\ invoice[r.order_id] >= 1 /\ ~ConfirmRunning(r.order_id)) =>
      r.invoice_blob # NoUrl

\* C12: a ConfirmationEvent is emitted only post-commit.  A step that places a
\* ConfirmationEvent of orders-queue message m on the confirmation queue is taken
\* by the invocation of m after its transaction has committed (it stands after the
\* with-block), carries the event's order_id, and that order's row is in orders;
\* after every step, every ConfirmationEvent that process_order has sent names an
\* order that has a row; and an invocation whose transaction aborts sends none.
C12_EmittedOnlyAfterCommit ==
  [][/\ \A m \in DOMAIN po :
          /\ \A c \in DOMAIN confQ :
               (c[1] = m /\ confQ[c].state = "absent" /\ confQ'[c].state # "absent") =>
                 /\ po[m].pc = "publish"
                 /\ ordersQ[m].commits >= 1
                 /\ c[2] = ordersQ[m].deliveries
                 /\ confQ'[c].order_id = ordersQ[m].body.order_id
                 /\ OrderRows(ordersQ[m].body.order_id) # {}
          /\ (po[m].pc \in TxPcs /\ po'[m].pc = "idle") =>
               {c \in DOMAIN confQ : c[1] = m /\ confQ'[c].state # "absent"} = SentBy(m)
     /\ \A c \in DOMAIN confQ :
          (c[1] # 0 /\ confQ'[c].state # "absent") =>
            \E r \in orders' : r.order_id = confQ'[c].order_id]_vars

\* the first delivery aborted inside its transaction and sent nothing; the second
\* committed and its ConfirmationEvent is waiting on the queue, the order row there
C12_Witness ==
  /\ Len(ordersQ) = 1
  /\ ordersQ[1].failed_at \in TxPcs
  /\ ordersQ[1].commits = 1
  /\ confQ[<<1, 1>>].state = "absent"
  /\ confQ[<<1, 2>>].state = "queued"
  /\ OrderRows(confQ[<<1, 2>>].order_id) # {}

\* C13: reservation never fails for lack of stock.  The inventory statement never
\* raises by itself (an invocation leaves the inventory loop through an exception
\* only when the environment injects a failure).  When the transaction commits, a
\* (product_id, warehouse_id) the event names that has no inventory row still has
\* none, a row it names holds its old quantity minus the requested one even when
\* that is negative, the order is 'reserved' and order_items has a row for every
\* product named; and the invocation, unless the publish itself fails, then puts
\* the ConfirmationEvent for the order on the confirmation queue.
C13_NeverFailsForLackOfStock ==
  [][\A m \in DOMAIN po :
       LET ev == ordersQ[m].body IN
       /\ (po[m].pc = "inventory" /\ po'[m].pc = "idle") => faults' = faults + 1
       /\ CommitOf(m) =>
            /\ \A i \in 1..Len(ev.items) :
                 LET key == <<ev.items[i].product_id, ev.warehouse_id>> IN
                 /\ (\A r \in inventory : InvKey(r) # key) =>
                      (\A r2 \in inventory' : InvKey(r2) # key)
                 /\ \A r \in inventory :
                      InvKey(r) = key =>
                        [r EXCEPT !.quantity = @ - Requested(ev, key)] \in inventory'
                 /\ \E r \in order_items' :
                      ItemKey(r) = <<ev.order_id, ev.items[i].product_id>>
            /\ \E r \in orders' : r.order_id = ev.order_id /\ r.status = "reserved"
       /\ (po[m].pc = "publish" /\ po'[m].pc = "idle" /\ faults' = faults) =>
            /\ confQ'[<<m, ordersQ[m].deliveries>>] = NewConfirmation(ev.order_id)
            /\ ordersQ'[m].state = "completed"]_vars

\* an event for warehouse 2 naming product 2 (no inventory row) and product 1
\* (2 in stock, 3 or 4 requested) was processed at its first delivery: still no
\* row (2,2), row (1,2) negative, order reserved, both order_items rows, and the
\* ConfirmationEvent sent
C13_Witness ==
  /\ Len(ordersQ) = 1
  /\ ordersQ[1].outcome = "completed" /\ ordersQ[1].deliveries = 1
  /\ LET ev == ordersQ[1].body IN
       /\ ev.warehouse_id = 2
       /\ ProductsOf(ev) = {1, 2}
       /\ \A r \in inventory : InvKey(r) # <<2, 2>>
       /\ \E r \in inventory : InvKey(r) = <<1, 2>> /\ r.quantity < 0
       /\ \E r \in orders : r.order_id = ev.order_id /\ r.status = "reserved"
       /\ Cardinality(ItemRows(ev.order_id)) = 2
       /\ confQ[<<1, 1>>].state = "queued"
       /\ confQ[<<1, 1>>].order_id = ev.order_id

\* the blobs of the container that belong to order oid
BlobsOf(oid) == {b \in blobs : b.name = blob_name(oid)}

\* C14: the invoice upload is overwrite-idempotent.  Every blob in the container
\* is stored under the key of an order; however many confirmations of an order
\* were delivered, once one upload for it has succeeded the container holds
\* exactly one blob for the order, under blob_name(order_id); and an invoice_blob
\* URL, once written, is the URL of that key and is never changed by a later
\* confirmation.
C14_OneBlobSameUrl ==
  [][/\ \A b \in blobs' : \E o \in OrderIds : b.name = blob_name(o)
     /\ \A o \in OrderIds :
          /\ Cardinality({b \in blobs' : b.name = blob_name(o)}) <= 1
          /\ BlobsOf(o) # {} => Cardinality({b \in blobs' : b.name = blob_name(o)}) = 1
          /\ \A c \in DOMAIN confQ :
               (confQ[c].order_id = o /\ confQ[c].co.pc = "upload"
                /\ confQ'[c].co.pc = "set_url") =>
                 Cardinality({b \in blobs' : b.name = blob_name(o)}) = 1
     /\ \A r \in orders : \A r2 \in orders' :
          (r2.order_id = r.order_id /\ r.invoice_blob # NoUrl) =>
            /\ r2.invoice_blob = r.invoice_blob
            /\ r.invoice_blob = blob_url(blob_name(r.order_id))]_vars

\* order 1 was reserved by two events (3 at 5, then 4 at 7) and confirmed after
\* each: both confirmations completed, the second upload replaced the first
\* invoice (total 15) by the new one (total 28) under the same key, same URL
C14_Witness ==
  /\ Len(ordersQ) = 2
  /\ ordersQ[2].body.order_id = 1
  /\ confQ[<<1, 1>>].outcome = "completed"
  /\ confQ[<<2, 1>>].outcome = "completed"
  /\ Cardinality(BlobsOf(1)) = 1
  /\ \A b \in BlobsOf(1) : b.data.grand_total = 28
  /\ \A r \in OrderRows(1) : r.invoice_blob = blob_url(blob_name(1))

\* the event lacks a key the handler reads, in itself or in one of its items
MalformedEvent(ev) ==
  \/ ~(EventFields \subseteq DOMAIN ev)
  \/ \E i \in 1..Len(ev.items) : ~(ItemFields \subseteq DOMAIN ev.items[i])

\* C15: a malformed event makes the handler raise and changes nothing.  For an
\* orders-queue message that lacks order_id, warehouse_id or items, or has an item
\* lacking product_id, quantity or price: no step of its invocations changes
\* orders, inventory, order_items or invoice nor sends a ConfirmationEvent, its
\* transaction never reaches the commit, and each invocation ends with the
\* message handed back to the runtime as failed (with a top-level key missing, at
\* the delivery itself).  For a confirmation message without order_id: every
\* delivery ends at once in a raise, with the tables and the blobs untouched.
C15_MalformedRaisesUntouched ==
  [][/\ \A m \in DOMAIN ordersQ :
          MalformedEvent(ordersQ[m].body) =>
            /\ (po'[m] # po[m] \/ ordersQ'[m] # ordersQ[m]) =>
                 /\ tables' = tables
                 /\ confQ' = confQ
            /\ po'[m].pc \notin {"commit", "publish"}
            /\ ordersQ'[m].state # "completed"
            /\ ordersQ'[m].commits = 0
            /\ (ordersQ[m].state = "locked" /\ ordersQ'[m].state # "locked") =>
                 /\ ordersQ'[m].state = "queued"
                 /\ ordersQ'[m].outcome \in {"key_error", "tx_failed"}
                 /\ po'[m] = IdlePO
            /\ (ordersQ'[m].deliveries # ordersQ[m].deliveries
                /\ ~(EventFields \subseteq DOMAIN ordersQ[m].body)) =>
                 /\ ordersQ'[m].state = "queued"
                 /\ ordersQ'[m].outcome = "key_error"
                 /\ po' = po
     /\ \A c \in DOMAIN confQ :
          ("order_id" \notin DOMAIN confQ[c] /\ confQ'[c] # confQ[c]) =>
            /\ tables' = tables
            /\ blobs' = blobs
            /\ confQ'[c].state = "queued"
            /\ confQ'[c].outcome = "key_error"
            /\ confQ'[c].co = IdleCO]_vars

\* the event whose second item has no price was delivered: its order statement,
\* both decrements and the first item's upsert ran, then the handler raised; the
\* confirmation without order_id was delivered and raised; every table is as at
\* the start and nothing was sent
C15_Witness ==
  /\ Len(ordersQ) = 2
  /\ EventFields \subseteq DOMAIN ordersQ[2].body
  /\ Len(ordersQ[2].body.items) = 2
  /\ "price" \notin DOMAIN ordersQ[2].body.items[2]
  /\ ordersQ[2].outcome = "key_error" /\ ordersQ[2].failed_at = "order_items"
  /\ ordersQ[2].state = "queued"
  /\ confQ[<<0, 1>>].outcome = "key_error" /\ confQ[<<0, 1>>].state = "queued"
  /\ ordersQ[1].commits = 0
  /\ orders = {} /\ inventory = InitialInventory /\ order_items = {}
  /\ \A o \in OrderIds : invoice[o] = 0
  /\ \A c \in DOMAIN confQ : c # <<0, 1>> => confQ[c].state = "absent"

\* C16: two reservation events for the same order_id, not yet in orders, processed
\* concurrently: neither invocation raises.  An invocation whose existence check
\* found no row leaves its INSERT through an exception only when the environment
\* injected a failure.
C16_ConcurrentFirstReservations ==
  [][\A m \in DOMAIN po :
       (po[m].pc = "upsert_order" /\ ~po[m].existing /\ po'[m].pc = "idle") =>
         faults' = faults + 1]_vars

\* the first transactions of confirm_order that have committed for order oid,
\* over the messages ids of confirmation queue q
RECURSIVE ConfirmCommits(_, _, _)
ConfirmCommits(q, ids, oid) ==
  IF ids = {} THEN 0
  ELSE LET c == CHOOSE x \in ids : TRUE
       IN (IF q[c].order_id = oid THEN q[c].commits ELSE 0)
          + ConfirmCommits(q, ids \ {c}, oid)

\* C17: invoice rows are not deduplicated.  A confirm_order invocation that finds
\* the order inserts exactly one invoice row for it: its transaction's commit
\* adds one row for that order and none for another, whatever rows are there
\* already, and the invocation gives up before the commit only when a failure is
\* injected; no other step (a skipped delivery, the upload, the URL update, any
\* step of process_order) changes invoice.  So after every step the invoice rows
\* of an order number the confirm_order transactions committed for it.
C17_InvoiceRowPerConfirmation ==
  [][/\ \A c \in DOMAIN confQ :
          /\ (confQ[c].co.pc = "commit" /\ confQ'[c].co.pc = "upload") =>
               invoice' = [invoice EXCEPT ![confQ[c].order_id] = @ + 1]
          /\ (confQ[c].co.pc \in {"update", "commit"} /\ confQ'[c].co.pc = "idle") =>
               faults' = faults + 1
          /\ (confQ'[c] # confQ[c] /\ confQ'[c].outcome = "skipped") =>
               /\ invoice' = invoice
               /\ confQ'[c].commits = 0
     /\ invoice' # invoice =>
          \E c \in DOMAIN confQ : confQ[c].co.pc = "commit" /\ confQ'[c].co.pc = "upload"
     /\ \A o \in OrderIds : invoice'[o] = ConfirmCommits(confQ', DOMAIN confQ, o)]_vars

\* one ConfirmationEvent was delivered twice (its lock was lost after the first
\* processing) and both invocations found the order: two invoice rows
C17_Witness ==
  /\ Len(ordersQ) = 1
  /\ confQ[<<1, 1>>].deliveries = 2
  /\ confQ[<<1, 1>>].commits = 2
  /\ confQ[<<1, 1>>].outcome = "completed"
  /\ invoice[confQ[<<1, 1>>].order_id] = 2

\* C18: liveness of the chain.  When nothing fails and both handlers keep running,
\* with messages delivered again finitely often, every order whose OrderEvent was
\* put on the orders queue eventually has, and from then on keeps, status
\* 'confirmed' with invoice_blob set.
C18_EventuallyConfirmedForGood ==
  <>[](\A m \in DOMAIN ordersQ :
         \E r \in orders :
           /\ r.order_id = ordersQ[m].body.order_id
           /\ r.status = "confirmed"
           /\ r.invoice_blob # NoUrl)

\* the OrderEvent was delivered twice (lock lost after the first processing), so
\* the order went back to 'reserved' after its first confirmation; both
\* ConfirmationEvents are processed and the order is 'confirmed' with its URL
C18_Witness ==
  /\ Len(ordersQ) = 1
  /\ ordersQ[1].deliveries = 2 /\ ordersQ[1].commits = 2
  /\ ordersQ[1].state = "completed"
  /\ confQ[<<1, 1>>].state = "completed" /\ confQ[<<1, 1>>].commits = 1
  /\ confQ[<<1, 2>>].state = "completed" /\ confQ[<<1, 2>>].commits = 1
  /\ \A r \in OrderRows(ordersQ[1].body.order_id) :
       r.status = "confirmed" /\ r.invoice_blob # NoUrl
  /\ OrderRows(ordersQ[1].body.order_id) # {}

\* C19: an order's warehouse_id is fixed at creation.  When the transaction of a
\* reservation event for an order that already had its row commits, the order's
\* row is the old one with status 'reserved' (warehouse_id and invoice_blob as
\* they were), every other order is untouched, and the decrements went to the
\* rows of the event's warehouse_id: each inventory row holds its old quantity
\* minus what the event requests of (product_id, the event's warehouse_id), so
\* the rows of the order's own warehouse are untouched when the two differ.
C19_WarehouseFixedAtCreation ==
  [][\A m \in DOMAIN po :
       (CommitOf(m) /\ po[m].existing) =>
         LET ev == ordersQ[m].body IN
         /\ OrderRows(ev.order_id) # {}
         /\ orders' = {IF r.order_id = ev.order_id
                         THEN [r EXCEPT !.status = "reserved"] ELSE r : r \in orders}
         /\ inventory' =
              {[r EXCEPT !.quantity =
                  IF r.warehouse_id = ev.warehouse_id
                    THEN @ - Requested(ev, <<r.product_id, ev.warehouse_id>>)
                    ELSE @] : r \in inventory}]_vars

\* order 1 was created for warehouse 1 and confirmed; then an event for order 1
\* carrying warehouse 2 committed: the row still says warehouse 1 and keeps its
\* invoice URL, row (1,1) has only the first event's decrement (10 - 3) and
\* row (1,2) took the second one's (2 - 3 or 2 - 4)
C19_Witness ==
  /\ Len(ordersQ) = 2
  /\ po[2].pc = "publish" /\ po[2].existing
  /\ ordersQ[1].commits = 1 /\ ordersQ[2].commits = 1
  /\ ordersQ[2].body.order_id = 1
  /\ ordersQ[2].body.warehouse_id = 2
  /\ ordersQ[2].body.items[1].product_id = 1
  /\ orders = {[order_id |-> 1, warehouse_id |-> 1, status |-> "reserved",
                invoice_blob |-> blob_url(blob_name(1))]}
  /\ [product_id |-> 1, warehouse_id |-> 1, quantity |-> 7] \in inventory
  /\ [product_id |-> 1, warehouse_id |-> 2,
      quantity |-> 2 - ordersQ[2].body.items[1].quantity] \in inventory

\* C20: an order whose invoice_blob is set has an invoice row and a blob under its
\* key.  After every step, every order with an invoice_blob has at least one
\* invoice row and a blob named blob_name(order_id) in the container; an
\* invoice_blob is written only by the step of a confirm_order invocation that
\* stands at its second transaction; and an invocation stands there only after
\* its first transaction (the invoice row) has committed and its upload is in
\* the container.
C20_UrlOnlyAfterInvoiceAndUpload ==
  [][/\ \A r \in orders' :
          r.invoice_blob # NoUrl =>
            /\ invoice'[r.order_id] >= 1
            /\ \E b \in blobs' : b.name = blob_name(r.order_id)
     /\ \A r \in orders' :
          (r.invoice_blob # NoUrl
           /\ \A old \in orders : old.order_id = r.order_id => old.invoice_blob = NoUrl) =>
            \E c \in DOMAIN confQ :
              /\ confQ[c].order_id = r.order_id
              /\ confQ[c].co.pc = "set_url" /\ confQ'[c].co.pc = "idle"
     /\ \A c \in DOMAIN confQ :
          confQ'[c].co.pc = "set_url" =>
            /\ confQ'[c].commits >= 1
            /\ invoice'[confQ'[c].order_id] >= 1
            /\ \E b \in blobs' : b.name = blob_name(confQ'[c].order_id)]_vars

\* the ConfirmationEvent of another producer for order 1 was processed once order
\* 1 was reserved: the order has its URL, one invoice row and its blob
C20_Witness ==
  /\ confQ[<<0, 1>>].order_id = 1
  /\ confQ[<<0, 1>>].outcome = "completed" /\ confQ[<<0, 1>>].commits = 1
  /\ \E r \in orders : r.order_id = 1 /\ r.invoice_blob = blob_url(blob_name(1))
  /\ invoice[1] = 1
  /\ Cardinality(BlobsOf(1)) = 1

====
